---------------------------- MODULE Spec2Model ----------------------------
(***************************************************************************)
(* Verification model of manila/utils.py: the SSH connection pool          *)
(* (SSHPool, an eventlet pools.Pool) and its session factory, the shell-injection guard             *)
(* (check_ssh_injection), the retry decorator (retry, over tenacity), the   *)
(* remote file writer (write_remote_file) and the access-rules wait loop    *)
(* (wait_for_access_update).                                                *)
(*                                                                          *)
(* SSHPool runs under eventlet: callers are greenthreads, which switch only *)
(* where a call blocks.  Inside SSHPool.get the only such places are        *)
(* self.create() (a network connect) and self.channel.get().  Every other   *)
(* statement sequence of get, put and remove runs without interruption, so  *)
(* each is one action here, and create() is a step of its own.              *)
(*                                                                          *)
(* The pool never looks at who calls it, so callers are counted, not named: *)
(* the state holds how many callers stand at each place of get() and how    *)
(* many hold each session.                                                  *)
(***************************************************************************)
EXTENDS Integers, Sequences, FiniteSets, TLC

\* ------------------------------------------------------------------ bounds
NumCallers == 3
MaxSessions == 4
MaxPoolSize == 2
MaxArgs == 2
MaxCmdChars == 4
MaxRetries == 3        \* retries is drawn from 0..MaxRetries
MaxInterval == 2       \* interval is drawn from 1..MaxInterval
MaxRate == 3           \* backoff_rate is drawn from 1..MaxRate
MaxSleepMax == 3       \* backoff_sleep_max is None or in 1..MaxSleepMax
MaxAttempts == 4       \* an infinite policy is followed for MaxAttempts attempts
MaxTimeout == 3        \* migration_wait_access_rules_timeout is in 0..MaxTimeout
MaxElapse == 2         \* a poll takes 0..MaxElapse - 1 seconds, a sleep 1..MaxElapse
MaxConnTimeout == 2    \* conn_timeout is None or in 0..MaxConnTimeout

Sessions == 1..MaxSessions
NoConn == 0

VARIABLES
    max_size,          \* Pool.max_size, fixed at construction
    order_as_stack,    \* Pool.order_as_stack, fixed at construction
    current_size,      \* Pool.current_size
    free_items,        \* Pool.free_items, a deque; index 1 is the left end
    waiting,           \* Pool.waiting(): callers blocked in self.channel.get()
    transport,         \* per session: "none" (not created), "active", "dead", "closed"
    holders,           \* per session: how many callers hold it, handed out by get()
    creating_new,      \* callers inside self.create() called from line 183
    creating_replace,  \* callers inside self.create() called from line 181
    released,          \* the free sessions, in the order put() returned them
    last,              \* the step that led to this state
    cmd_list,          \* check_ssh_injection: the argument list under check
    verdict,           \* check_ssh_injection: "unchecked", "accepted", "rejected"
    r_cfg,             \* retry(...): the arguments it was called with
    r_pc,              \* retry: where the decorator and the wrapped call stand
    attempt_number,    \* tenacity RetryCallState.attempt_number
    outcome,           \* tenacity RetryCallState.outcome: what the last attempt did
    invocations,       \* how often the wrapped function ran in this call
    pauses,            \* how often the wrapper slept in this call
    pause,             \* the length of the last sleep
    r_raised,          \* what the wrapped call raised to its caller
    w_in,              \* write_remote_file: its arguments
    w_pc,              \* write_remote_file: the statement it stands at
    w_log,             \* write_remote_file: what it did to the session, in order
    w_remote,          \* write_remote_file: how the two remote commands ended
    a_pc,              \* wait_for_access_update: the statement it stands at
    a_status,          \* wait_for_access_update: instance['access_rules_status']
    a_clock,           \* wait_for_access_update: time.time()
    a_deadline,        \* wait_for_access_update: deadline
    a_now,             \* wait_for_access_update: now
    a_tries,           \* wait_for_access_update: tries
    a_polls,           \* wait_for_access_update: calls of share_instance_get
    peer,              \* retry: the call state of a second, concurrent caller
    c_args,            \* SSHPool(...): password, privatekey, conn_timeout given
    c_self,            \* SSHPool: self.password, self.path_to_private_key, self.conn_timeout
    c_pc,              \* SSHPool.create: "new", "constructed", "connected", "failed"
    c_connect,         \* SSHPool.create: the arguments of the last ssh.connect
    c_keepalive        \* SSHPool.create: what set_keepalive was last called with

injVars == <<cmd_list, verdict>>
poolVars == <<max_size, order_as_stack, current_size, free_items, waiting,
              transport, holders, creating_new, creating_replace, released, last>>
retryVars == <<r_cfg, r_pc, attempt_number, outcome, invocations, pauses, pause,
               r_raised, peer>>
createVars == <<c_args, c_self, c_pc, c_connect, c_keepalive>>
writeVars == <<w_in, w_pc, w_log, w_remote>>
waitVars == <<a_pc, a_status, a_clock, a_deadline, a_now, a_tries, a_polls>>
vars == <<max_size, order_as_stack, current_size, free_items, waiting,
          transport, holders, creating_new, creating_replace, released, last,
          cmd_list, verdict, r_cfg, r_pc, attempt_number, outcome, invocations,
          pauses, pause, r_raised, w_in, w_pc, w_log, w_remote, a_pc,
          a_status, a_clock, a_deadline, a_now, a_tries, a_polls, peer,
          c_args, c_self, c_pc, c_connect, c_keepalive>>

\* The components that are not running: nothing configured, nothing called.
NoCfg == [none |-> TRUE]
RetryIdle ==
    /\ r_cfg = NoCfg
    /\ r_pc = "idle"
    /\ attempt_number = 0
    /\ outcome = [kind |-> "none"]
    /\ invocations = 0
    /\ pauses = 0
    /\ pause = 0
    /\ r_raised = [kind |-> "none"]
    /\ peer = NoCfg

CreateIdle ==
    /\ c_args = NoCfg
    /\ c_self = NoCfg
    /\ c_pc = "idle"
    /\ c_connect = NoCfg
    /\ c_keepalive = NoCfg

WriteIdle ==
    /\ w_in = NoCfg
    /\ w_pc = "idle"
    /\ w_log = <<>>
    /\ w_remote = <<>>

WaitIdle ==
    /\ a_pc = "idle"
    /\ a_status = "none"
    /\ a_clock = 0
    /\ a_deadline = 0
    /\ a_now = 0
    /\ a_tries = 0
    /\ a_polls = 0

InjIdle == cmd_list = <<>> /\ verdict = "unchecked"

\* ------------------------------------------------------------- sequences
Range(s) == {s[i] : i \in 1..Len(s)}

RECURSIVE Without(_, _)
\* deque.remove(x): drops the first occurrence of x
Without(s, x) ==
    IF s = <<>> THEN <<>>
    ELSE IF Head(s) = x THEN Tail(s)
    ELSE <<Head(s)>> \o Without(Tail(s), x)

RECURSIVE SumTo(_, _)
SumTo(f, n) == IF n = 0 THEN 0 ELSE f[n] + SumTo(f, n - 1)

Op(op, sess, path) == [op |-> op, sess |-> sess, path |-> path]

\* ------------------------------------------------------------------ pool
\* Pool.__init__ with min_size = 0: nothing is created at construction.  The
\* injection guard is not running.
Init ==
    /\ InjIdle /\ RetryIdle /\ WriteIdle /\ WaitIdle /\ CreateIdle
    /\ max_size \in 1..MaxPoolSize
    /\ order_as_stack \in BOOLEAN
    /\ current_size = 0
    /\ free_items = <<>>
    /\ waiting = 0
    /\ transport = [s \in Sessions |-> "none"]
    /\ holders = [s \in Sessions |-> 0]
    /\ creating_new = 0
    /\ creating_replace = 0
    /\ released = <<>>
    /\ last = Op("none", NoConn, "none")

\* conn.get_transport().is_active()
is_active(s) == transport[s] = "active"

\* The sessions callers hold, and how many callers hold one.
CheckedOut == {s \in Sessions : holders[s] > 0}
NumHolding == SumTo(holders, MaxSessions)

\* The callers inside no call and holding nothing: they may call get().
NumIdle == NumCallers - (NumHolding + creating_new + creating_replace + waiting)
CanCall == NumIdle > 0

\* Mutants of popleft(): one that pops at the right end, one that returns the
\* item and leaves it in the deque.
pop_right_item(q) == q[Len(q)]
peek_rest(q) == q

\* free_items.popleft()
popleft_item(q) == Head(q)
popleft_rest(q) == Tail(q)

\* get(), lines 174-181: a free item exists.  It is popped; an active one is
\* returned, a dead one is closed and the caller goes on to self.create().
\* current_size is not touched on this path.
GetFree ==
    /\ CanCall
    /\ free_items # <<>>
    /\ LET s == popleft_item(free_items) IN
        /\ free_items' = popleft_rest(free_items)
        /\ released' = Without(released, s)
        /\ IF is_active(s)
             THEN /\ holders' = [holders EXCEPT ![s] = @ + 1]
                  /\ last' = Op("get", s, "free")
                  /\ UNCHANGED <<transport, creating_replace>>
             ELSE /\ creating_replace' = creating_replace + 1
                  /\ transport' = [transport EXCEPT ![s] = "closed"]
                  /\ last' = Op("get", s, "dead")
                  /\ UNCHANGED holders
    /\ UNCHANGED <<max_size, order_as_stack, current_size, waiting, creating_new>>
    /\ UNCHANGED <<injVars, retryVars, writeVars, waitVars, createVars>>

\* Mutant of the capacity test: off by one.
HasCapacityOffByOne == current_size <= max_size

\* The capacity test of get(), line 182.
HasCapacity == current_size < max_size

\* get(), lines 182-183: no free item and room left: the caller enters
\* self.create(); the increment of line 184 comes after create() returns.
GetNew ==
    /\ CanCall
    /\ free_items = <<>>
    /\ HasCapacity
    /\ creating_new' = creating_new + 1
    /\ last' = Op("get", NoConn, "new")
    /\ UNCHANGED <<max_size, order_as_stack, current_size, free_items, waiting,
                   transport, holders, creating_replace, released>>
    /\ UNCHANGED <<injVars, retryVars, writeVars, waitVars, createVars>>

\* get(), line 186: no free item and no room: the caller blocks in
\* self.channel.get().
GetBlock ==
    /\ CanCall
    /\ free_items = <<>>
    /\ ~HasCapacity
    /\ waiting' = waiting + 1
    /\ last' = Op("get", NoConn, "block")
    /\ UNCHANGED <<max_size, order_as_stack, current_size, free_items,
                   transport, holders, creating_new, creating_replace, released>>
    /\ UNCHANGED <<injVars, retryVars, writeVars, waitVars, createVars>>

\* The session a successful create() builds: one that did not exist before.
Fresh == CHOOSE s \in Sessions :
            /\ transport[s] = "none"
            /\ \A t \in Sessions : transport[t] = "none" => s <= t

\* create() succeeds (lines 149-160) inside the get() of line 183; lines
\* 184-185 increment current_size and return the new session.
CreateNewOk ==
    /\ creating_new > 0
    /\ \E s \in Sessions : transport[s] = "none"
    /\ creating_new' = creating_new - 1
    /\ transport' = [transport EXCEPT ![Fresh] = "active"]
    /\ holders' = [holders EXCEPT ![Fresh] = @ + 1]
    /\ current_size' = current_size + 1
    /\ last' = Op("get", Fresh, "created")
    /\ UNCHANGED <<max_size, order_as_stack, free_items, waiting,
                   creating_replace, released>>
    /\ UNCHANGED <<injVars, retryVars, writeVars, waitVars, createVars>>

\* create() succeeds (lines 149-160) inside the get() of line 181, which
\* returns the new session as it is: current_size stays.
CreateReplaceOk ==
    /\ creating_replace > 0
    /\ \E s \in Sessions : transport[s] = "none"
    /\ creating_replace' = creating_replace - 1
    /\ transport' = [transport EXCEPT ![Fresh] = "active"]
    /\ holders' = [holders EXCEPT ![Fresh] = @ + 1]
    /\ last' = Op("get", Fresh, "replaced")
    /\ UNCHANGED <<max_size, order_as_stack, current_size, free_items, waiting,
                   creating_new, released>>
    /\ UNCHANGED <<injVars, retryVars, writeVars, waitVars, createVars>>

\* create() fails (lines 161-165): SSHException leaves get() at once, so no
\* statement after the call to create() runs.
CreateNewFail ==
    /\ creating_new > 0
    /\ creating_new' = creating_new - 1
    /\ last' = Op("get", NoConn, "failed_new")
    /\ UNCHANGED <<max_size, order_as_stack, current_size, free_items, waiting,
                   transport, holders, creating_replace, released>>
    /\ UNCHANGED <<injVars, retryVars, writeVars, waitVars, createVars>>

CreateReplaceFail ==
    /\ creating_replace > 0
    /\ creating_replace' = creating_replace - 1
    /\ last' = Op("get", NoConn, "failed_replace")
    /\ UNCHANGED <<max_size, order_as_stack, current_size, free_items, waiting,
                   transport, holders, creating_new, released>>
    /\ UNCHANGED <<injVars, retryVars, writeVars, waitVars, createVars>>

\* Pool.put(item), inherited from eventlet's pools.Pool:
\*   if self.current_size > self.max_size: self.current_size -= 1; return
\*   if self.waiting(): self.channel.put(item, block=False); return
\*   appendleft(item) if self.order_as_stack else append(item)
\* The channel wakes one of the blocked getters, and its get() (line 186)
\* returns the item: the item passes from the releasing caller to that one.
put(s) ==
    /\ holders[s] > 0
    /\ IF current_size > max_size
         THEN /\ current_size' = current_size - 1
              /\ holders' = [holders EXCEPT ![s] = @ - 1]
              /\ last' = Op("put", s, "dropped")
              /\ UNCHANGED <<free_items, waiting, released>>
         ELSE IF waiting > 0
         THEN /\ waiting' = waiting - 1
              /\ last' = Op("put", s, "handoff")
              /\ UNCHANGED <<current_size, free_items, holders, released>>
         ELSE /\ free_items' = IF order_as_stack
                                 THEN <<s>> \o free_items
                                 ELSE Append(free_items, s)
              /\ released' = Append(released, s)
              /\ holders' = [holders EXCEPT ![s] = @ - 1]
              /\ last' = Op("put", s, "freed")
              /\ UNCHANGED <<current_size, waiting>>
    /\ UNCHANGED <<max_size, order_as_stack, transport, creating_new,
                   creating_replace>>
    /\ UNCHANGED <<injVars, retryVars, writeVars, waitVars, createVars>>

\* Mutant of remove(): the decrement forgotten.
SizeAfterRemoveKept == current_size

\* current_size after remove() found the session in free_items, lines 193-194.
SizeAfterRemove == IF current_size > 0 THEN current_size - 1 ELSE current_size

\* remove(ssh), lines 188-194.  A caller passes the session it holds, or a
\* session it released earlier and that is back in the free list.
remove(s) ==
    /\ \/ holders[s] > 0
       \/ s \in Range(free_items) /\ NumIdle + NumHolding > 0
    /\ transport' = [transport EXCEPT ![s] = "closed"]
    /\ IF s \in Range(free_items)
         THEN /\ free_items' = Without(free_items, s)
              /\ released' = Without(released, s)
              /\ current_size' = SizeAfterRemove
              /\ last' = Op("remove", s, "was_free")
         ELSE /\ last' = Op("remove", s, "not_free")
              /\ UNCHANGED <<free_items, released, current_size>>
    /\ UNCHANGED <<max_size, order_as_stack, waiting, holders, creating_new,
                   creating_replace>>
    /\ UNCHANGED <<injVars, retryVars, writeVars, waitVars, createVars>>

\* The remote end or the network drops the connection of a session that is
\* in use or free: from then on get_transport().is_active() (line 177)
\* answers False.
TransportDrop(s) ==
    /\ transport[s] = "active"
    /\ s \in Range(free_items) \cup CheckedOut
    /\ transport' = [transport EXCEPT ![s] = "dead"]
    /\ last' = Op("drop", s, "dead")
    /\ UNCHANGED <<max_size, order_as_stack, current_size, free_items, waiting,
                   holders, creating_new, creating_replace, released>>
    /\ UNCHANGED <<injVars, retryVars, writeVars, waitVars, createVars>>

\* No caller is inside create(): the pool is between calls.
Quiescent == creating_new + creating_replace = 0

Next ==
    \/ GetFree
    \/ GetNew
    \/ GetBlock
    \/ CreateNewOk
    \/ CreateReplaceOk
    \/ CreateNewFail
    \/ CreateReplaceFail
    \/ \E s \in Sessions : put(s)
    \/ \E s \in Sessions : remove(s)
    \/ \E s \in Sessions : TransportDrop(s)

\* Greenthreads switching at create(): any caller may run while others are
\* inside create().
Spec == Init /\ [][Next]_vars

\* Every call taken as one atomic step: while a caller is inside create(), no
\* other caller runs, so a call is started only when the pool is quiescent.
NextAtomic ==
    \/ Quiescent /\ GetFree
    \/ Quiescent /\ GetNew
    \/ Quiescent /\ GetBlock
    \/ CreateNewOk
    \/ CreateReplaceOk
    \/ CreateNewFail
    \/ CreateReplaceFail
    \/ \E s \in Sessions : Quiescent /\ put(s)
    \/ \E s \in Sessions : Quiescent /\ remove(s)
    \/ \E s \in Sessions : TransportDrop(s)

SpecAtomic == Init /\ [][NextAtomic]_vars

\* ------------------------------------------------------------ pool claims
Saturated == current_size = max_size /\ free_items = <<>>
GetCall == GetFree \/ GetNew \/ GetBlock
ReturnPaths == {"free", "created", "replaced", "handoff"}

\* C1: with every call of get, put and remove taken as one atomic step,
\* current_size never goes negative and never exceeds max_size.
C1_SizeWithinBounds == 0 <= current_size /\ current_size <= max_size

\* C1 witness: a get() has just found the largest pool full and blocked
\* without touching current_size.
C1_Witness ==
    /\ last = Op("get", NoConn, "block")
    /\ current_size = max_size
    /\ max_size = MaxPoolSize

\* C2: with callers switching at create(), current_size never exceeds
\* max_size and no more than max_size sessions are checked out at once.
C2_NoOvercommit == current_size <= max_size /\ NumHolding <= max_size

\* C3: no session is in the free list while a caller holds it, and no session
\* is held by two callers.
C3_ExclusiveOwnership ==
    \A s \in Sessions :
        /\ holders[s] <= 1
        /\ s \in Range(free_items) => holders[s] = 0

\* C3 witness: a released session was taken from the free list again while
\* another session is still free and another is held.
C3_Witness ==
    /\ last.op = "get" /\ last.path = "free"
    /\ holders[last.sess] = 1
    /\ free_items # <<>>
    /\ NumHolding >= 2

\* C4: a get() on a saturated pool neither fails nor creates: the caller
\* blocks; a put() made while callers are blocked hands the released session
\* to one of them; and a blocked caller is unblocked by nothing but a put().
C4_BlockUntilRelease ==
    [][ /\ (Saturated /\ GetCall) =>
              /\ waiting' = waiting + 1
              /\ current_size' = current_size
              /\ transport' = transport
              /\ creating_new' = creating_new
        /\ \A s \in Sessions : (waiting > 0 /\ put(s)) =>
              /\ waiting' = waiting - 1
              /\ last' = Op("put", s, "handoff")
              /\ holders'[s] >= 1
        /\ waiting' < waiting => \E s \in Sessions : put(s)
      ]_vars

\* C5: a session get() returns is active when it is returned, whether it was
\* taken from the free list, newly created, or handed over by a put().
C5_ReturnedAlive ==
    last.path \in ReturnPaths => transport[last.sess] = "active"

\* C6: a dead session popped by get() is closed and out of the free list, is
\* never handed out or freed again, the same get() returns a session that did
\* not exist before, and current_size is within max_size afterwards.
C6_DeadReplaced ==
    [][ /\ (GetFree /\ ~is_active(Head(free_items))) =>
              /\ transport'[Head(free_items)] = "closed"
              /\ Head(free_items) \notin Range(free_items')
              /\ holders'[Head(free_items)] = 0
        /\ \A s \in Sessions :
              (transport[s] = "closed" /\ holders[s] = 0
                   /\ s \notin Range(free_items)) =>
              (holders'[s] = 0 /\ s \notin Range(free_items'))
        /\ CreateReplaceOk =>
              /\ transport[last'.sess] = "none"
              /\ holders'[last'.sess] = 1
              /\ current_size' <= max_size
      ]_vars

\* C7: when create() fails inside get(), on either path, current_size still
\* equals the number of free sessions plus the number checked out.
C7_FailureKeepsAccounting ==
    (last.path \in {"failed_new", "failed_replace"} /\ Quiescent) =>
        current_size = Len(free_items) + NumHolding

\* C8: remove(s) closes s; if s is in the free list it leaves it and
\* current_size drops by exactly one, staying >= 0; otherwise the free list
\* and current_size are unchanged.
C8_EvictEffect ==
    [][ \A s \in Sessions : remove(s) =>
          /\ transport'[s] = "closed"
          /\ IF s \in Range(free_items)
               THEN /\ s \notin Range(free_items')
                    /\ Len(free_items') = Len(free_items) - 1
                    /\ current_size' = current_size - 1
                    /\ current_size' >= 0
               ELSE /\ free_items' = free_items
                    /\ current_size' = current_size
      ]_vars

\* C8 witness: a session that was free has just been evicted.
C8_Witness ==
    /\ last.op = "remove" /\ last.path = "was_free"
    /\ transport[last.sess] = "closed"
    /\ last.sess \notin Range(free_items)

Abandon(s) ==
    /\ holders[s] > 0
    /\ transport[s] = "closed"
    /\ holders' = [holders EXCEPT ![s] = @ - 1]
    /\ last' = Op("abandon", s, "closed")
    /\ UNCHANGED <<max_size, order_as_stack, current_size, free_items, waiting,
                   transport, creating_new, creating_replace, released>>
    /\ UNCHANGED <<injVars, retryVars, writeVars, waitVars, createVars>>

\* The pool with callers that may also keep an evicted session for good.
NextEvict ==
    \/ Next
    \/ \E s \in Sessions : Abandon(s)

SpecEvict == Init /\ [][NextEvict]_vars

\* C22: between calls, current_size does not exceed the number of sessions in
\* the free list plus the number of sessions held by callers, whatever acquire,
\* release and evict calls came before, failed creations and evictions of
\* checked-out sessions that are never released included.
C22_NoCapacityLoss ==
    Quiescent => current_size <= Len(free_items) + NumHolding

\* ------------------------------------------------------- injection guard
\* The characters arguments are drawn from: a harmless one, the backslash,
\* a danger character (alone "|", doubled "||"), whitespace and the two quotes.
Chars == {"a", "\\", "|", " ", "'", "\""}
Quotes == {"'", "\""}

\* ssh_injection_pattern, lines 198-199.  A TLA+ string cannot hold the
\* backquote, which is written "backquote" here.
ssh_injection_pattern ==
    << <<"backquote">>, <<"$">>, <<"|">>, <<"|", "|">>, <<";">>, <<"&">>,
       <<"&", "&">>, <<">">>, <<">", ">">>, <<"<">> >>

Strings(n) == UNION {[1..k -> Chars] : k \in 0..n}

\* The ways to cut a string of L characters into m arguments: the end of each
\* argument but the last.
Cuts(m, L) ==
    IF m <= 1 THEN {<<>>}
    ELSE {f \in [1..(m - 1) -> 0..L] : \A i \in 1..(m - 2) : f[i] <= f[i + 1]}

\* The m arguments that the cuts f make of the string w.
Split(w, m, f) ==
    [i \in 1..m |-> SubSeq(w, (IF i = 1 THEN 0 ELSE f[i - 1]) + 1,
                              IF i = m THEN Len(w) ELSE f[i])]

RECURSIVE lstrip(_)
lstrip(a) == IF a # <<>> /\ Head(a) = " " THEN lstrip(Tail(a)) ELSE a

RECURSIVE rstrip(_)
rstrip(a) ==
    IF a # <<>> /\ a[Len(a)] = " " THEN rstrip(SubSeq(a, 1, Len(a) - 1)) ELSE a

\* arg.strip(), line 203
strip(a) == rstrip(lstrip(a))

\* Whether c occurs in a at the 0-based index i.
OccursAt(a, c, i) ==
    /\ i >= 0
    /\ i + Len(c) <= Len(a)
    /\ SubSeq(a, i + 1, i + Len(c)) = c

\* arg.find(c), line 226: the index of the first occurrence, or -1
find(a, c) ==
    IF \E i \in 0..Len(a) : OccursAt(a, c, i)
      THEN CHOOSE i \in 0..Len(a) :
               /\ OccursAt(a, c, i)
               /\ \A j \in 0..Len(a) : OccursAt(a, c, j) => i <= j
      ELSE -1

\* re.match('^(?P<quote>[\'"])(?P<quoted>.*)(?P=quote)$', arg), line 206:
\* the same quote character at both ends
is_quoted(a) == Len(a) >= 2 /\ a[1] \in Quotes /\ a[Len(a)] = a[1]

\* is_quoted.group('quoted'), line 209
quoted(a) == SubSeq(a, 2, Len(a) - 1)

\* Only the re.search of line 212: a quote right after a character that is not
\* a backslash.
SearchedQuote(q) ==
    \E i \in 1..(Len(q) - 1) : q[i] # "\\" /\ q[i + 1] \in Quotes

\* re.match('[\'"]', quoted) or re.search('[^\\\\][\'"]', quoted), lines 211-212
UnescapedQuote(q) ==
    \/ q[1] \in Quotes
    \/ \E i \in 1..(Len(q) - 1) : q[i] # "\\" /\ q[i + 1] \in Quotes

RECURSIVE NumTokens(_)
\* len(arg.split()), line 217: the number of whitespace-separated tokens
NumTokens(a) ==
    IF a = <<>> THEN 0
    ELSE IF Head(a) = " " THEN NumTokens(Tail(a))
    ELSE IF Len(a) >= 2 /\ a[2] # " " THEN NumTokens(Tail(a))
    ELSE 1 + NumTokens(Tail(a))

\* Lines 205-218 for one stripped argument: whether SSHInjectionThreat is
\* raised by the quoting checks.
QuotingRaises(a) ==
    IF is_quoted(a)
      THEN quoted(a) # <<>> /\ UnescapedQuote(quoted(a))
      ELSE NumTokens(a) > 1

\* Lines 222-229 for one stripped argument and one danger pattern.
PatternRaises(a, c) ==
    LET result == find(a, c) IN
        /\ result # -1
        /\ (result = 0 \/ a[result] # "\\")

\* Lines 222-229 for one stripped argument.
DangerRaises(a) ==
    \E k \in 1..Len(ssh_injection_pattern) : PatternRaises(a, ssh_injection_pattern[k])

\* The body of the loop of line 202 for one argument.
ArgRaises(arg) ==
    LET a == strip(arg) IN QuotingRaises(a) \/ DangerRaises(a)

\* A loop that stops after its first argument.
check_first_only(cmd) == cmd # <<>> /\ ArgRaises(cmd[1])

\* check_ssh_injection(cmd_list), lines 197-229: whether it raises
\* SSHInjectionThreat.
check_ssh_injection(cmd) == \E n \in 1..Len(cmd) : ArgRaises(cmd[n])

\* A pool as constructed, untouched while another component runs.
PoolIdle ==
    /\ max_size = 1
    /\ order_as_stack = FALSE
    /\ current_size = 0
    /\ free_items = <<>>
    /\ waiting = 0
    /\ transport = [s \in Sessions |-> "none"]
    /\ holders = [s \in Sessions |-> 0]
    /\ creating_new = 0
    /\ creating_replace = 0
    /\ released = <<>>
    /\ last = Op("none", NoConn, "none")

\* The argument lists of at most MaxArgs arguments and MaxCmdChars characters
\* in all.  The pool is as constructed, untouched while the guard runs.
InitInjection ==
    /\ \E m \in 0..MaxArgs : \E w \in Strings(MaxCmdChars) :
          \E f \in Cuts(m, Len(w)) :
              /\ m = 0 => w = <<>>
              /\ cmd_list = Split(w, m, f)
    /\ verdict = "unchecked"
    /\ PoolIdle /\ RetryIdle /\ WriteIdle /\ WaitIdle /\ CreateIdle

\* One call of check_ssh_injection(cmd_list).
Check ==
    /\ verdict = "unchecked"
    /\ verdict' = IF check_ssh_injection(cmd_list) THEN "rejected" ELSE "accepted"
    /\ UNCHANGED <<cmd_list, poolVars, retryVars, writeVars, waitVars, createVars>>

NextInjection == Check

SpecInjection == InitInjection /\ [][NextInjection]_vars

\* ------------------------------------------------------- injection claims
\* A danger pattern occurs in the argument at a place that is position 0 or
\* is not right after a backslash.
UnescapedDanger(arg) ==
    \E k \in 1..Len(ssh_injection_pattern) :
        \E i \in 0..Len(arg) :
            /\ OccursAt(arg, ssh_injection_pattern[k], i)
            /\ (i = 0 \/ arg[i] # "\\")

\* C10: check_ssh_injection rejects every argument list with an argument in
\* which any occurrence of a danger pattern is not right after a backslash,
\* also when an earlier occurrence of the pattern is escaped.
C10_AnyUnescapedRejected ==
    (verdict # "unchecked" /\ \E n \in 1..Len(cmd_list) : UnescapedDanger(cmd_list[n]))
        => verdict = "rejected"

\* The places of an argument that are not whitespace.
Ink(arg) == {i \in 1..Len(arg) : arg[i] # " "}

\* The argument without its leading and trailing whitespace.
Trimmed(arg) ==
    IF Ink(arg) = {} THEN <<>>
    ELSE SubSeq(arg, CHOOSE i \in Ink(arg) : \A k \in Ink(arg) : i <= k,
                     CHOOSE j \in Ink(arg) : \A k \in Ink(arg) : k <= j)

\* The trimmed argument has the same quote character at both ends.
Wrapped(arg) ==
    LET a == Trimmed(arg) IN Len(a) >= 2 /\ a[1] \in Quotes /\ a[Len(a)] = a[1]

\* What the wrapping quotes enclose.
Inner(arg) == LET a == Trimmed(arg) IN SubSeq(a, 2, Len(a) - 1)

\* A quote character that is the first character or is not right after a
\* backslash.
BareQuote(q) ==
    \E i \in 1..Len(q) : q[i] \in Quotes /\ (i = 1 \/ q[i - 1] # "\\")

ManyTokens(arg) ==
    \E i, k \in Ink(arg) : \E j \in 1..Len(arg) : i < j /\ j < k /\ arg[j] = " "

\* One token, not wrapped in quotes, no danger character.
Plain(arg) ==
    /\ ~Wrapped(arg)
    /\ ~ManyTokens(arg)
    /\ \A i \in 1..Len(arg) : arg[i] \notin {"|", "backquote", "$", ";", "&", ">", "<"}

\* C12: an argument list is rejected iff one of its arguments, checked alone,
\* is rejected; every list with an unquoted argument of more than one
\* whitespace-separated token is rejected; every list of single-token unquoted
\* arguments without danger characters is accepted.
C12_PerArgument ==
    verdict # "unchecked" =>
        /\ verdict = "rejected" <=>
               \E n \in 1..Len(cmd_list) : check_ssh_injection(<<cmd_list[n]>>)
        /\ (\E n \in 1..Len(cmd_list) :
               ~Wrapped(cmd_list[n]) /\ ManyTokens(cmd_list[n]))
               => verdict = "rejected"
        /\ (\A n \in 1..Len(cmd_list) : Plain(cmd_list[n])) => verdict = "accepted"

\* A list of two arguments was rejected for its second argument alone: the
\* first is a plain token, the second an unquoted argument of two tokens.
C12_Witness ==
    /\ verdict = "rejected"
    /\ Len(cmd_list) = 2
    /\ Plain(cmd_list[1]) /\ cmd_list[1] # <<>>
    /\ ~Wrapped(cmd_list[2]) /\ ManyTokens(cmd_list[2])

\* ------------------------------------------------------------------ retry
\* backoff_sleep_max=None, line 485
None == -1

\* The exceptions the wrapped function raises: a ProcessExecutionError with
\* an exit code, or an exception of another class (exit_code is then unused).
ExitCodes == {1, 2, 3}
Failures ==
    {[kind |-> "raised", exc |-> "ProcessExecutionError", exit_code |-> c] :
        c \in ExitCodes}
    \cup {[kind |-> "raised", exc |-> "ValueError", exit_code |-> 0]}

\* The classifiers: the retry callable and the retry_param it is given
\* (line 520).  For retry_if_exit_code the parameter is one integer or a
\* collection of integers.
Classifiers ==
    {[retry |-> "retry_if_exception_type", retry_param |-> c] :
        c \in {"Exception", "ProcessExecutionError"}}
    \cup {[retry |-> "retry_if_exit_code", retry_param |-> c] :
        c \in {[int |-> TRUE, val |-> 1], [int |-> FALSE, val |-> {1, 2}]}}

\* The arguments of retry(...), lines 481-488.
Configs ==
    [retries : 0..MaxRetries,
     interval : 1..MaxInterval,
     backoff_rate : 1..MaxRate,
     backoff_sleep_max : {None} \cup 1..MaxSleepMax,
     wait_random : BOOLEAN,
     infinite : BOOLEAN,
     classifier : Classifiers]

RECURSIVE Pow(_, _)
Pow(b, e) == IF e = 0 THEN 1 ELSE b * Pow(b, e - 1)

Min2(a, b) == IF a <= b THEN a ELSE b
Max2(a, b) == IF a >= b THEN a ELSE b

\* tenacity.wait_exponential(multiplier, min=0, exp_base, max)(retry_state),
\* built at lines 500-503 (and, with the default exp_base, at lines 495-498):
\* multiplier * exp_base ** (attempt_number - 1), clamped to [min, max].
wait_exponential(multiplier, exp_base, max, attempt) ==
    LET result == multiplier * Pow(exp_base, attempt - 1) IN
        Max2(0, IF max = None THEN result ELSE Min2(result, max))

\* The exponent base tenacity uses when none is passed.
default_exp_base == 2

\* An exponent base one above the configured rate.
rate_plus_one == r_cfg.backoff_rate + 1

\* The exponent base of the wait policy: line 500 passes backoff_rate as
\* exp_base; lines 495-497 pass no exp_base, which leaves tenacity's default.
exp_base == IF r_cfg.wait_random THEN default_exp_base ELSE r_cfg.backoff_rate

\* wait(retry_state), lines 494-503: the sleeps the policy can ask for after
\* the given attempt.  wait_random_exponential draws uniformly from 0 up to
\* what wait_exponential gives.
wait(attempt) ==
    LET high == wait_exponential(r_cfg.interval, exp_base,
                                 r_cfg.backoff_sleep_max, attempt) IN
        IF r_cfg.wait_random THEN 0..high ELSE {high}

\* A stop condition that lets one more attempt through.
stop_one_late(attempt) == ~r_cfg.infinite /\ attempt > r_cfg.retries

\* stop(retry_state), lines 505-508: stop_never, or stop_after_attempt(retries)
stop(attempt) == ~r_cfg.infinite /\ attempt >= r_cfg.retries

\* isinstance(exc, cls) for the classes above
isinstance(exc, cls) == cls = "Exception" \/ exc = cls

\* self.codes, line 473
codes(param) == IF param.int THEN {param.val} ELSE param.val

\* A check that looks at the class of the failure only.
check_process_error_only(o, param) == isinstance(o.exc, "ProcessExecutionError")

\* retry_if_exit_code._check_exit_code, lines 476-478
check_exit_code(o, param) ==
    /\ isinstance(o.exc, "ProcessExecutionError")
    /\ o.exit_code \in codes(param)

\* retry(retry_param)(retry_state), line 520: whether the classifier asks for
\* another attempt.  Both classifiers are tenacity.retry_if_exception: false
\* for an attempt that did not fail.
should_retry(o) ==
    /\ o.kind = "raised"
    /\ IF r_cfg.classifier.retry = "retry_if_exit_code"
         THEN check_exit_code(o, r_cfg.classifier.retry_param)
         ELSE isinstance(o.exc, r_cfg.classifier.retry_param)

\* A wrapper that raises its own error when it gives up.
no_reraise == FALSE

\* reraise=True, line 519
reraise == TRUE

\* What the wrapper raises when the stop condition ends the call: with
\* reraise the exception of the last attempt, else tenacity.RetryError.
GiveUp(o) ==
    IF reraise THEN o ELSE [kind |-> "raised", exc |-> "RetryError", exit_code |-> 0]

\* retry(...) is about to be called with some arguments; the other components
\* are idle.
InitRetry ==
    /\ r_cfg \in Configs
    /\ r_pc = "unconfigured"
    /\ attempt_number = 0
    /\ outcome = [kind |-> "none"]
    /\ invocations = 0
    /\ pauses = 0
    /\ pause = 0
    /\ r_raised = [kind |-> "none"]
    /\ peer = NoCfg
    /\ InjIdle /\ PoolIdle /\ WriteIdle /\ WaitIdle /\ CreateIdle

RetryUnchanged == UNCHANGED <<injVars, poolVars, writeVars, waitVars, createVars, peer>>

\* retry(...), lines 489-526: the check of retries, then the decorator.
Configure ==
    /\ r_pc = "unconfigured"
    /\ r_pc' = IF r_cfg.retries < 1 THEN "ValueError" ELSE "decorated"
    /\ UNCHANGED <<r_cfg, attempt_number, outcome, invocations, pauses, pause,
                   r_raised>>
    /\ RetryUnchanged

\* A call state that outlives the call: the count goes on where the call
\* before it stopped.
carried_attempt(before) == IF before = 0 THEN 1 ELSE before

\* The attempt_number a call starts with: line 514 builds a new Retrying
\* inside _wrapper, and its __call__ a new RetryCallState, for every call,
\* whatever the count of the call before it was.
start_attempt(before) == 1

\* _wrapper(*args, **kwargs), lines 512-522: a new Retrying object and a new
\* call of it, with its own RetryCallState.
CallWrapper ==
    /\ r_pc \in {"decorated", "returned", "raised"}
    /\ r_pc' = "attempt"
    /\ attempt_number' = start_attempt(attempt_number)
    /\ outcome' = [kind |-> "none"]
    /\ invocations' = 0
    /\ pauses' = 0
    /\ pause' = 0
    /\ r_raised' = [kind |-> "none"]
    /\ UNCHANGED r_cfg
    /\ RetryUnchanged

\* Retrying.__call__, DoAttempt: f(*args, **kwargs) returns.
AttemptReturns ==
    /\ r_pc = "attempt"
    /\ r_pc' = "iter"
    /\ invocations' = invocations + 1
    /\ outcome' = [kind |-> "result"]
    /\ UNCHANGED <<r_cfg, attempt_number, pauses, pause, r_raised>>
    /\ RetryUnchanged

\* Retrying.__call__, DoAttempt: f(*args, **kwargs) raises.
AttemptRaises ==
    /\ r_pc = "attempt"
    /\ r_pc' = "iter"
    /\ invocations' = invocations + 1
    /\ outcome' \in Failures
    /\ UNCHANGED <<r_cfg, attempt_number, pauses, pause, r_raised>>
    /\ RetryUnchanged

\* Retrying.iter: the classifier does not ask for a retry and the attempt
\* returned: the wrapper returns its result (line 522).
ReturnResult ==
    /\ r_pc = "iter"
    /\ ~should_retry(outcome)
    /\ outcome.kind = "result"
    /\ r_pc' = "returned"
    /\ UNCHANGED <<r_cfg, attempt_number, outcome, invocations, pauses, pause,
                   r_raised>>
    /\ RetryUnchanged

\* Retrying.iter: the classifier does not ask for a retry and the attempt
\* raised: fut.result() raises that exception out of the wrapper.
RaiseUnmatched ==
    /\ r_pc = "iter"
    /\ ~should_retry(outcome)
    /\ outcome.kind = "raised"
    /\ r_pc' = "raised"
    /\ r_raised' = outcome
    /\ UNCHANGED <<r_cfg, attempt_number, outcome, invocations, pauses, pause>>
    /\ RetryUnchanged

\* Retrying.iter: a retry is asked for but the stop condition holds.
RaiseExhausted ==
    /\ r_pc = "iter"
    /\ should_retry(outcome)
    /\ stop(attempt_number)
    /\ r_pc' = "raised"
    /\ r_raised' = GiveUp(outcome)
    /\ UNCHANGED <<r_cfg, attempt_number, outcome, invocations, pauses, pause>>
    /\ RetryUnchanged

\* Retrying.iter and __call__, DoSleep: a retry is asked for and the stop
\* condition does not hold: the wait policy gives the sleep,
\* prepare_for_next_attempt counts the attempt, and the wrapper sleeps.
GoSleep ==
    /\ r_pc = "iter"
    /\ should_retry(outcome)
    /\ ~stop(attempt_number)
    /\ attempt_number < MaxAttempts
    /\ pause' \in wait(attempt_number)
    /\ pauses' = pauses + 1
    /\ attempt_number' = attempt_number + 1
    /\ r_pc' = "sleeping"
    /\ UNCHANGED <<r_cfg, outcome, invocations, r_raised>>
    /\ RetryUnchanged

\* The sleep ends; the loop of Retrying.__call__ makes the next attempt.
WakeUp ==
    /\ r_pc = "sleeping"
    /\ r_pc' = "attempt"
    /\ UNCHANGED <<r_cfg, attempt_number, outcome, invocations, pauses, pause,
                   r_raised>>
    /\ RetryUnchanged

NextRetry ==
    \/ Configure
    \/ CallWrapper
    \/ AttemptReturns
    \/ AttemptRaises
    \/ ReturnResult
    \/ RaiseUnmatched
    \/ RaiseExhausted
    \/ GoSleep
    \/ WakeUp

SpecRetry == InitRetry /\ [][NextRetry]_vars

\* ---------------------------------------------- retry, concurrent callers
\* A second greenthread calls the same wrapped function while the first is
\* anywhere in its own call.  Its call state is the record peer.
PeerIdle ==
    [pc |-> "idle", attempt_number |-> 0, outcome |-> [kind |-> "none"],
     invocations |-> 0, pauses |-> 0]

\* The configurations of the two-caller runs: the lengths of the sleeps play
\* no part there and are fixed.
PairConfigs ==
    {c \in Configs : /\ c.interval = 1
                     /\ c.backoff_rate = 1
                     /\ c.backoff_sleep_max = None
                     /\ ~c.wait_random}

InitRetryPair ==
    /\ r_cfg \in PairConfigs
    /\ r_pc = "unconfigured"
    /\ attempt_number = 0
    /\ outcome = [kind |-> "none"]
    /\ invocations = 0
    /\ pauses = 0
    /\ pause = 0
    /\ r_raised = [kind |-> "none"]
    /\ peer = PeerIdle
    /\ InjIdle /\ PoolIdle /\ WriteIdle /\ WaitIdle /\ CreateIdle

PeerUnchanged ==
    UNCHANGED <<r_cfg, r_pc, attempt_number, outcome, invocations, pauses, pause,
                r_raised, injVars, poolVars, writeVars, waitVars, createVars>>

\* _wrapper called by the second caller, lines 512-522.
PeerCall ==
    /\ r_pc \notin {"unconfigured", "ValueError"}
    /\ peer.pc \in {"idle", "returned", "raised"}
    /\ peer' = [pc |-> "attempt",
                attempt_number |-> start_attempt(peer.attempt_number),
                outcome |-> [kind |-> "none"], invocations |-> 0, pauses |-> 0]
    /\ PeerUnchanged

\* Retrying.__call__, DoAttempt, for the second caller: f returns or raises.
PeerAttempt ==
    /\ peer.pc = "attempt"
    /\ \E o \in Failures \cup {[kind |-> "result"]} :
          peer' = [peer EXCEPT !.pc = "iter", !.outcome = o,
                               !.invocations = @ + 1]
    /\ PeerUnchanged

\* Retrying.iter for the second caller: return, raise, or sleep.
PeerIter ==
    /\ peer.pc = "iter"
    /\ IF ~should_retry(peer.outcome)
         THEN peer' = [peer EXCEPT !.pc = IF peer.outcome.kind = "result"
                                            THEN "returned" ELSE "raised"]
         ELSE IF stop(peer.attempt_number)
         THEN peer' = [peer EXCEPT !.pc = "raised"]
         ELSE /\ peer.attempt_number < MaxAttempts
              /\ peer' = [peer EXCEPT !.pc = "sleeping", !.pauses = @ + 1,
                                      !.attempt_number = @ + 1]
    /\ PeerUnchanged

\* The sleep of the second caller ends.
PeerWake ==
    /\ peer.pc = "sleeping"
    /\ peer' = [peer EXCEPT !.pc = "attempt"]
    /\ PeerUnchanged

NextRetryPair ==
    \/ Configure
    \/ CallWrapper
    \/ AttemptReturns
    \/ AttemptRaises
    \/ ReturnResult
    \/ RaiseUnmatched
    \/ RaiseExhausted
    \/ GoSleep
    \/ WakeUp
    \/ PeerCall
    \/ PeerAttempt
    \/ PeerIter
    \/ PeerWake

SpecRetryPair == InitRetryPair /\ [][NextRetryPair]_vars

\* ----------------------------------------------------------- retry claims
\* The failure is one the configured classifier is described to retry: an
\* instance of the given class, or a process-execution failure whose exit code
\* is the given integer or is among the given codes.
Retryable(o) ==
    LET c == r_cfg.classifier IN
        IF c.retry = "retry_if_exit_code"
          THEN /\ o.exc = "ProcessExecutionError"
               /\ \/ c.retry_param.int /\ o.exit_code = c.retry_param.val
                  \/ ~c.retry_param.int /\ o.exit_code \in c.retry_param.val
          ELSE c.retry_param = "Exception" \/ o.exc = c.retry_param

\* interval * backoff_rate^(k-1), replaced by backoff_sleep_max when that is
\* set and smaller.
PauseBound(k) ==
    LET b == r_cfg.interval * Pow(r_cfg.backoff_rate, k - 1) IN
        IF r_cfg.backoff_sleep_max # None /\ r_cfg.backoff_sleep_max < b
          THEN r_cfg.backoff_sleep_max ELSE b

\* C13: with a bounded cap retries = N >= 1, a call that ends by raising a
\* failure the classifier matches has invoked the function exactly N times,
\* has paused exactly N - 1 times, and raises the failure of the last attempt
\* itself.
C13_ExhaustedReraises ==
    (r_pc = "raised" /\ ~r_cfg.infinite /\ Retryable(outcome)) =>
        /\ invocations = r_cfg.retries
        /\ pauses = r_cfg.retries - 1
        /\ r_raised = outcome

\* A call capped at three attempts failed three times and raised.
C13_Witness ==
    /\ r_pc = "raised"
    /\ ~r_cfg.infinite
    /\ r_cfg.retries = 3
    /\ Retryable(outcome)
    /\ invocations = 3
    /\ pauses = 2

\* C14: after a failed attempt, a failure the classifier does not match is
\* raised to the caller at once, with no further invocation and no pause; and
\* while attempts remain the wrapper goes on to pause and retry iff the failure
\* is one the classifier matches (for retry_if_exit_code: a process-execution
\* failure whose exit code is among the codes).
C14_UnmatchedPropagates ==
    [][(r_pc = "iter" /\ outcome.kind = "raised") =>
          /\ ~Retryable(outcome) =>
                 /\ r_pc' = "raised"
                 /\ r_raised' = outcome
                 /\ invocations' = invocations
                 /\ pauses' = pauses
          /\ (r_cfg.infinite \/ invocations < r_cfg.retries) =>
                 (r_pc' = "sleeping" <=> Retryable(outcome))]_vars

\* Under retry_if_exit_code a process-execution failure with another exit code
\* was raised after the first of several allowed attempts.
C14_Witness ==
    /\ r_pc = "raised"
    /\ r_cfg.classifier.retry = "retry_if_exit_code"
    /\ outcome.exc = "ProcessExecutionError"
    /\ ~Retryable(outcome)
    /\ r_raised = outcome
    /\ invocations = 1
    /\ pauses = 0
    /\ r_cfg.retries >= 2

\* C15: with wait_random false, the pause after the k-th failed attempt is
\* interval * backoff_rate^(k-1), replaced by backoff_sleep_max when that is set
\* and smaller, and is not shorter than the pause before it.
C15_DeterministicPause ==
    [][(r_pc = "iter" /\ r_pc' = "sleeping" /\ ~r_cfg.wait_random) =>
          /\ pause' = PauseBound(invocations)
          /\ pauses >= 1 => pause' >= pause]_vars

\* The second pause of a call is cut to backoff_sleep_max.
C15_Witness ==
    /\ r_pc = "sleeping"
    /\ ~r_cfg.wait_random
    /\ pauses = 2
    /\ r_cfg.backoff_sleep_max # None
    /\ pause = r_cfg.backoff_sleep_max
    /\ pause < r_cfg.interval * r_cfg.backoff_rate

\* C16: with wait_random true, the pause after the k-th failed attempt lies
\* between 0 and interval * backoff_rate^(k-1), capped at backoff_sleep_max
\* when set.
C16_JitterWithinBound ==
    (r_pc = "sleeping" /\ r_cfg.wait_random) =>
        (0 <= pause /\ pause <= PauseBound(invocations))

\* C17: retry(...) raises ValueError iff the cap is bounded and retries < 1,
\* and does so before the wrapped function is ever invoked; a bounded cap >= 1
\* and every unbounded policy are accepted.
C17_CapValidated ==
    r_pc # "unconfigured" =>
        /\ r_pc = "ValueError" <=> (~r_cfg.infinite /\ r_cfg.retries < 1)
        /\ r_pc = "ValueError" => invocations = 0

\* ------------------------------------------------------ write_remote_file
\* The file names and contents write_remote_file is called with.
Filenames == {"/etc/exports", "/mnt/share/a b"}
Contents == {"", "data"}

\* "%s.tmp" % filename, line 706
tmp_filename(filename) == filename \o ".tmp"

\* '"%s"' % name: the name between double quotes, as one word of a command
dq(name) == "\"" \o name \o "\""

\* A write command that targets the file itself.
cmd_in_place(filename, as_root) ==
    IF as_root
      THEN <<"sudo", "tee", dq(filename), ">", "/dev/null">>
      ELSE <<"cat", ">", dq(filename)>>

\* cmd, lines 708 and 711, as its words
cmd(filename, as_root) ==
    IF as_root
      THEN <<"sudo", "tee", dq(tmp_filename(filename)), ">", "/dev/null">>
      ELSE <<"cat", ">", dq(tmp_filename(filename))>>

\* cmd2, lines 709 and 712, as its words
cmd2(filename, as_root) ==
    IF as_root
      THEN <<"sudo", "mv", "-f", dq(tmp_filename(filename)), dq(filename)>>
      ELSE <<"mv", "-f", dq(tmp_filename(filename)), dq(filename)>>

\* How a remote command ends on the host.  exec_command returns as soon as
\* the command is started; its exit status is known only to who asks for it.
RemoteEnds == {"ok", "failed"}

\* write_remote_file(ssh, filename, contents, as_root) is called; the other
\* components are idle.
InitWrite ==
    /\ w_in \in [ssh : Sessions, filename : Filenames, contents : Contents,
                  as_root : BOOLEAN]
    /\ w_pc = "exec_cmd"
    /\ w_log = <<>>
    /\ w_remote = <<>>
    /\ InjIdle /\ PoolIdle /\ RetryIdle /\ WaitIdle /\ CreateIdle

WriteUnchanged == UNCHANGED <<injVars, poolVars, retryVars, waitVars, createVars>>

\* ssh.exec_command(cmd), line 713: the command is started on the host.
ExecCmd ==
    /\ w_pc = "exec_cmd"
    /\ w_log' = Append(w_log, [op |-> "exec_command", ssh |-> w_in.ssh,
                               arg |-> cmd(w_in.filename, w_in.as_root)])
    /\ \E e \in RemoteEnds : w_remote' = Append(w_remote, e)
    /\ w_pc' = "write"
    /\ UNCHANGED w_in
    /\ WriteUnchanged

\* ssh.exec_command(cmd), line 713, raises: the command could not be issued.
ExecCmdRaises ==
    /\ w_pc = "exec_cmd"
    /\ w_remote' = Append(w_remote, "not issued")
    /\ w_pc' = "raised"
    /\ UNCHANGED <<w_in, w_log>>
    /\ WriteUnchanged

\* stdin.write(contents), line 714
StdinWrite ==
    /\ w_pc = "write"
    /\ w_log' = Append(w_log, [op |-> "stdin.write", ssh |-> w_in.ssh,
                               arg |-> <<w_in.contents>>])
    /\ w_pc' = "close"
    /\ UNCHANGED <<w_in, w_remote>>
    /\ WriteUnchanged

\* stdin.write(contents), line 714, raises: the channel is already closed,
\* which happens when the command has ended before the write.
StdinWriteRaises ==
    /\ w_pc = "write"
    /\ w_remote[1] = "failed"
    /\ w_pc' = "raised"
    /\ UNCHANGED <<w_in, w_log, w_remote>>
    /\ WriteUnchanged

\* stdin.close(), line 715
StdinClose ==
    /\ w_pc = "close"
    /\ w_log' = Append(w_log, [op |-> "stdin.close", ssh |-> w_in.ssh, arg |-> <<>>])
    /\ w_pc' = "shutdown_write"
    /\ UNCHANGED <<w_in, w_remote>>
    /\ WriteUnchanged

\* stdin.channel.shutdown_write(), line 716
ShutdownWrite ==
    /\ w_pc = "shutdown_write"
    /\ w_log' = Append(w_log, [op |-> "shutdown_write", ssh |-> w_in.ssh,
                               arg |-> <<>>])
    /\ w_pc' = "exec_cmd2"
    /\ UNCHANGED <<w_in, w_remote>>
    /\ WriteUnchanged

\* ssh.exec_command(cmd2), line 717: the command is started on the host and
\* the function returns; what exec_command returns is dropped.
ExecCmd2 ==
    /\ w_pc = "exec_cmd2"
    /\ w_log' = Append(w_log, [op |-> "exec_command", ssh |-> w_in.ssh,
                               arg |-> cmd2(w_in.filename, w_in.as_root)])
    /\ \E e \in RemoteEnds : w_remote' = Append(w_remote, e)
    /\ w_pc' = "returned"
    /\ UNCHANGED w_in
    /\ WriteUnchanged

\* ssh.exec_command(cmd2), line 717, raises: the command could not be issued.
ExecCmd2Raises ==
    /\ w_pc = "exec_cmd2"
    /\ w_remote' = Append(w_remote, "not issued")
    /\ w_pc' = "raised"
    /\ UNCHANGED <<w_in, w_log>>
    /\ WriteUnchanged

NextWrite ==
    \/ ExecCmd
    \/ ExecCmdRaises
    \/ StdinWrite
    \/ StdinWriteRaises
    \/ StdinClose
    \/ ShutdownWrite
    \/ ExecCmd2
    \/ ExecCmd2Raises

SpecWrite == InitWrite /\ [][NextWrite]_vars

\* ----------------------------------------------- write_remote_file claims
\* The places of the session log where a remote command was issued.
Issued == {i \in 1..Len(w_log) : w_log[i].op = "exec_command"}

\* The command has a word that names the path, between double quotes.
Names(c, path) == \E i \in 1..Len(c) : c[i] = "\"" \o path \o "\""

\* C18: a call of write_remote_file that returns has issued exactly two remote
\* commands, both on the session it was given: first a write command (tee or
\* cat) on filename + ".tmp", and, after the contents were written to its input
\* stream and that stream was closed, an mv of filename + ".tmp" onto filename;
\* each begins with sudo iff as_root.
C18_TwoCommandsInOrder ==
    w_pc = "returned" =>
        /\ Cardinality(Issued) = 2
        /\ \A i \in 1..Len(w_log) : w_log[i].ssh = w_in.ssh
        /\ \E i, j, k, l \in 1..Len(w_log) :
              /\ i < j /\ j < k /\ k < l
              /\ Issued = {i, l}
              /\ w_log[i].arg[IF w_in.as_root THEN 2 ELSE 1] \in {"tee", "cat"}
              /\ Names(w_log[i].arg, w_in.filename \o ".tmp")
              /\ ~Names(w_log[i].arg, w_in.filename)
              /\ w_log[j].op = "stdin.write" /\ w_log[j].arg = <<w_in.contents>>
              /\ w_log[k].op = "stdin.close"
              /\ w_log[l].arg[IF w_in.as_root THEN 2 ELSE 1] = "mv"
              /\ w_log[l].arg[Len(w_log[l].arg) - 1] = "\"" \o w_in.filename \o ".tmp\""
              /\ w_log[l].arg[Len(w_log[l].arg)] = "\"" \o w_in.filename \o "\""
              /\ (w_log[i].arg[1] = "sudo") <=> w_in.as_root
              /\ (w_log[l].arg[1] = "sudo") <=> w_in.as_root

\* A call with as_root returned after both of its commands.
C18_Witness ==
    /\ w_pc = "returned"
    /\ w_in.as_root
    /\ w_in.contents # ""
    /\ Cardinality(Issued) = 2

\* C19: when a remote step of write_remote_file fails (the write command or
\* the rename fails on the host, or cannot be issued) the call ends by raising,
\* and the call never closes, evicts or releases the session.
C19_FailurePropagates ==
    /\ (w_pc \in {"returned", "raised"}
         /\ \E i \in 1..Len(w_remote) : w_remote[i] \in {"failed", "not issued"})
           => w_pc = "raised"
    /\ \A i \in 1..Len(w_log) :
           w_log[i].op \notin {"close", "remove", "put"}

\* ------------------------------------------------- wait_for_access_update
\* instance['access_rules_status']: constants.STATUS_ACTIVE,
\* constants.SHARE_INSTANCE_RULES_ERROR, or another status.
Statuses == {"active", "error", "syncing"}

\* A loop body that looks at the deadline before it looks at the error status.
branch_deadline_first(status, now, deadline) ==
    IF status = "active" THEN "break"
    ELSE IF now > deadline THEN "timeout"
    ELSE IF status = "error" THEN "failed"
    ELSE "sleep"

\* The branch the loop body takes, lines 651-670.
branch(status, now, deadline) ==
    IF status = "active" THEN "break"
    ELSE IF status = "error" THEN "failed"
    ELSE IF now > deadline THEN "timeout"
    ELSE "sleep"

\* wait_for_access_update is called, lines 644-646: time is counted in seconds
\* from starttime.  The other components are idle.
InitWait ==
    /\ a_pc = "poll"
    /\ a_status = "none"
    /\ a_clock = 0
    /\ a_deadline \in 0..MaxTimeout
    /\ a_now = 0
    /\ a_tries = 0
    /\ a_polls = 0
    /\ InjIdle /\ PoolIdle /\ RetryIdle /\ WriteIdle /\ CreateIdle

WaitUnchanged == UNCHANGED <<injVars, poolVars, retryVars, writeVars, createVars>>

\* db.share_instance_get, line 649: the status read, and the time it took.
Polled(status, d) ==
    /\ a_pc = "poll"
    /\ a_status' = status
    /\ a_clock' = a_clock + d
    /\ a_polls' = a_polls + 1
    /\ UNCHANGED a_deadline
    /\ WaitUnchanged

\* Lines 649-652: the status is active; the loop is left and the function
\* returns.
PollActive ==
    \E status \in Statuses, d \in 0..(MaxElapse - 1) :
        /\ Polled(status, d)
        /\ branch(status, a_clock + d, a_deadline) = "break"
        /\ a_pc' = "returned"
        /\ UNCHANGED <<a_tries, a_now>>

\* Lines 649-660: the error status; ShareMigrationFailed "Failed to update
\* access rules" is raised.
PollError ==
    \E status \in Statuses, d \in 0..(MaxElapse - 1) :
        /\ Polled(status, d)
        /\ branch(status, a_clock + d, a_deadline) = "failed"
        /\ a_tries' = a_tries + 1
        /\ a_now' = a_clock + d
        /\ a_pc' = "failed"

\* Lines 649-667: now > deadline; ShareMigrationFailed "Timeout trying to
\* update access rules" is raised.
PollTimeout ==
    \E status \in Statuses, d \in 0..(MaxElapse - 1) :
        /\ Polled(status, d)
        /\ branch(status, a_clock + d, a_deadline) = "timeout"
        /\ a_tries' = a_tries + 1
        /\ a_now' = a_clock + d
        /\ a_pc' = "timeout"

\* Lines 649-670: neither; time.sleep(1.414 ** tries) is entered.
PollSleep ==
    \E status \in Statuses, d \in 0..(MaxElapse - 1) :
        /\ Polled(status, d)
        /\ branch(status, a_clock + d, a_deadline) = "sleep"
        /\ a_tries' = a_tries + 1
        /\ a_now' = a_clock + d
        /\ a_pc' = "sleeping"

\* time.sleep(1.414 ** tries), line 670, returns: more than a second has
\* passed, 1.414 ** tries being above 1 for tries >= 1.
Wake ==
    /\ a_pc = "sleeping"
    /\ \E d \in 1..MaxElapse : a_clock' = a_clock + d
    /\ a_pc' = "poll"
    /\ UNCHANGED <<a_status, a_deadline, a_now, a_tries, a_polls>>
    /\ WaitUnchanged

NextWait ==
    \/ PollActive
    \/ PollError
    \/ PollTimeout
    \/ PollSleep
    \/ Wake

SpecWait == InitWait /\ [][NextWait]_vars

\* ------------------------------------------ wait_for_access_update claims
\* C20: the function ends only after a poll; a poll ends the call by a normal
\* return iff it observes the active status, whether or not the deadline has
\* passed; by the failure error iff it observes the error status, whether or
\* not the deadline has passed; by the timeout error iff it observes another
\* status after the deadline; and a pause begins only while the deadline has
\* not passed.
C20_PollOutcome ==
    [][/\ (a_pc' # a_pc /\ a_pc' \in {"returned", "failed", "timeout"})
              => a_polls' = a_polls + 1
       /\ a_polls' = a_polls + 1 =>
              /\ a_pc' = "returned" <=> a_status' = "active"
              /\ a_pc' = "failed" <=> a_status' = "error"
              /\ a_pc' = "timeout" <=>
                    (a_status' \notin {"active", "error"} /\ a_clock' > a_deadline)
              /\ a_pc' = "sleeping" => a_clock' <= a_deadline]_vars

\* The call returned on an active status seen after the deadline, on its
\* second poll or later.
C20_Witness ==
    /\ a_pc = "returned"
    /\ a_status = "active"
    /\ a_clock > a_deadline
    /\ a_polls >= 2

\* --------------------------------------------------------- SSHPool.create
\* Python's None where the argument is a string (password=None,
\* privatekey=None, line 121-122).
NoValue == "None"

Passwords == {NoValue, "", "secret"}
PrivateKeys == {NoValue, "", "~/.ssh/id_rsa", "/etc/manila/ssh_key"}
ConnTimeouts == {None} \cup 0..MaxConnTimeout

\* Truth of a string and of a number in a condition: None, the empty string
\* and 0 are false.
truthy_str(x) == x \notin {NoValue, ""}
truthy_int(x) == x \notin {None, 0}

\* os.path.expanduser, line 136
expanduser(path) ==
    IF path = "~/.ssh/id_rsa" THEN "/home/manila/.ssh/id_rsa" ELSE path

\* A session factory that searches for keys whenever no key file is given.
look_for_keys_without_key(self) == ~truthy_str(self.path_to_private_key)

\* look_for_keys, lines 134-140
look_for_keys(self) ==
    IF truthy_str(self.path_to_private_key) THEN FALSE
    ELSE IF truthy_str(self.password) THEN FALSE
    ELSE TRUE

\* self.path_to_private_key after lines 135-137
path_after_create(self) ==
    IF truthy_str(self.path_to_private_key)
      THEN expanduser(self.path_to_private_key)
      ELSE self.path_to_private_key

\* The keyword arguments of ssh.connect, lines 149-156
connect_kwargs(self) ==
    [password |-> self.password,
     key_filename |-> path_after_create(self),
     look_for_keys |-> look_for_keys(self),
     timeout |-> self.conn_timeout,
     banner_timeout |-> self.conn_timeout]

\* SSHPool(ip, port, conn_timeout, login, password, privatekey) is about to be
\* constructed; the other components are idle.
InitCreate ==
    /\ c_args \in [password : Passwords, privatekey : PrivateKeys,
                    conn_timeout : ConnTimeouts]
    /\ c_self = NoCfg
    /\ c_pc = "new"
    /\ c_connect = NoCfg
    /\ c_keepalive = None
    /\ InjIdle /\ PoolIdle /\ RetryIdle /\ WriteIdle /\ WaitIdle

CreateUnchanged == UNCHANGED <<injVars, poolVars, retryVars, writeVars, waitVars>>

\* SSHPool.__init__, lines 121-129
Construct ==
    /\ c_pc = "new"
    /\ c_self' = [password |-> c_args.password,
                  conn_timeout |-> IF truthy_int(c_args.conn_timeout)
                                     THEN c_args.conn_timeout ELSE None,
                  path_to_private_key |-> c_args.privatekey]
    /\ c_pc' = "constructed"
    /\ UNCHANGED <<c_args, c_connect, c_keepalive>>
    /\ CreateUnchanged

\* SSHPool.create, lines 131-160: ssh.connect succeeds, the keepalive is set
\* when self.conn_timeout is true, and the client is returned.
CreateConnects ==
    /\ c_pc \in {"constructed", "connected", "failed"}
    /\ c_self' = [c_self EXCEPT !.path_to_private_key = path_after_create(c_self)]
    /\ c_connect' = connect_kwargs(c_self)
    /\ c_keepalive' = IF truthy_int(c_self.conn_timeout)
                        THEN c_self.conn_timeout ELSE None
    /\ c_pc' = "connected"
    /\ UNCHANGED c_args
    /\ CreateUnchanged

\* SSHPool.create, lines 131-165: ssh.connect raises; SSHException is raised
\* and no transport exists.
CreateRaises ==
    /\ c_pc \in {"constructed", "connected", "failed"}
    /\ c_self' = [c_self EXCEPT !.path_to_private_key = path_after_create(c_self)]
    /\ c_connect' = connect_kwargs(c_self)
    /\ c_keepalive' = None
    /\ c_pc' = "failed"
    /\ UNCHANGED c_args
    /\ CreateUnchanged

NextCreate ==
    \/ Construct
    \/ CreateConnects
    \/ CreateRaises

SpecCreate == InitCreate /\ [][NextCreate]_vars

\* -------------------------------------------------- SSHPool.create claims
\* The argument was given a value: not None and not empty.
Configured(x) == x # NoValue /\ x # ""

\* C21: a session created by the pool was connected with the key file and
\* without key discovery when a private-key path is configured; else with the
\* password and without key discovery when a password is configured; with key
\* discovery iff neither is configured; and its transport was given a
\* keepalive iff a connect timeout other than 0 is configured.
C21_AuthPriority ==
    c_pc = "connected" =>
        /\ Configured(c_args.privatekey) =>
               /\ c_connect.key_filename \in
                      {c_args.privatekey, expanduser(c_args.privatekey)}
               /\ ~c_connect.look_for_keys
        /\ (~Configured(c_args.privatekey) /\ Configured(c_args.password)) =>
               /\ c_connect.password = c_args.password
               /\ ~Configured(c_connect.key_filename)
               /\ ~c_connect.look_for_keys
        /\ c_connect.look_for_keys <=>
               (~Configured(c_args.privatekey) /\ ~Configured(c_args.password))
        /\ (c_keepalive # None) <=>
               (c_args.conn_timeout # None /\ c_args.conn_timeout # 0)
        /\ c_keepalive # None => c_keepalive = c_args.conn_timeout

\* A pool with both a key path and a password, and a connect timeout,
\* created a session.
C21_Witness ==
    /\ c_pc = "connected"
    /\ Configured(c_args.privatekey)
    /\ Configured(c_args.password)
    /\ ~c_connect.look_for_keys
    /\ c_args.conn_timeout > 0
    /\ c_keepalive = c_args.conn_timeout

\* C23: a call returns as soon as an attempt succeeds, with no further
\* invocation and no pause; with a bounded cap it never makes more than retries
\* invocations and ends at the latest after the last of them; with the
\* unbounded policy it ends only on a success or on a failure the classifier
\* does not match; every call starts with attempt 1 and numbers its own
\* attempts only, whatever earlier calls and a concurrent caller have done.
C23_PerCallAttempts ==
    [][/\ (r_pc = "iter" /\ outcome.kind = "result" /\ r_pc' # r_pc) =>
              /\ r_pc' = "returned"
              /\ invocations' = invocations
              /\ pauses' = pauses
       /\ ~r_cfg.infinite =>
              /\ invocations' <= r_cfg.retries
              /\ (r_pc = "iter" /\ invocations = r_cfg.retries /\ r_pc' # r_pc)
                     => r_pc' \in {"returned", "raised"}
       /\ (r_cfg.infinite /\ r_pc' # r_pc) =>
              /\ r_pc' = "raised" => ~Retryable(outcome')
              /\ r_pc' = "returned" => outcome'.kind = "result"
       /\ (r_pc' = "attempt" /\ r_pc \in {"decorated", "returned", "raised"})
              => attempt_number' = 1
       /\ r_pc' = "attempt" => attempt_number' = invocations' + 1
       /\ (peer'.pc = "attempt" /\ peer.pc \in {"idle", "returned", "raised"})
              => peer'.attempt_number = 1
       /\ peer'.pc = "attempt" => peer'.attempt_number = peer'.invocations + 1
       /\ peer' # peer =>
              UNCHANGED <<r_pc, attempt_number, outcome, invocations, pauses>>
       /\ r_pc' # r_pc => peer' = peer]_vars

\* The first caller is about to make its third attempt while the second
\* caller, in a later call of its own, is about to make its first.
C23_Witness ==
    /\ r_pc = "attempt"
    /\ attempt_number = 3
    /\ invocations = 2
    /\ peer.pc = "attempt"
    /\ peer.attempt_number = 1
    /\ peer.invocations = 0

=============================================================================
